---- MODULE Spec2Model ----
(***************************************************************************)
(* Parking allocation and retrieval engine: the single-lane (stack) layout *)
(* StackParkingLane, the FIFO layout QueueParkingLot, the WaitingQueue and *)
(* the fee calculator calc_fee (structures.py, pricing.py).                *)
(*                                                                         *)
(* Every object carries a "call" record: the last operation applied to it, *)
(* its argument, its return value and the object's content before the      *)
(* call. The FIFO structures also carry a history of what went in and what *)
(* came out, switched on in the specifications that reason about order.    *)
(* RecordLinkedList (records.py) is a heap of nodes; the occupancy index   *)
(* and the caller that keeps it are modelled from the design document.     *)
(***************************************************************************)
EXTENDS Integers, Sequences, FiniteSets, TLC

\* ------------------------------------------------------------------ bounds
Plates == {"A", "B", "C"}
MaxCap == 3          \* capacities are drawn from 1..MaxCap
MaxQueue == 3        \* longest waiting line explored when no history is kept
MaxHist == 4         \* longest history of successful park / enqueue calls
MaxMinutes == 121    \* elapsed minutes are drawn from 0..MaxMinutes
MaxRate == 40        \* hourly rates are drawn from 0..MaxRate
MaxMinCharge == 61   \* minimum-charge minutes are drawn from 0..MaxMinCharge
MaxAdds == 25        \* most add_front calls explored on a log
MaxLimit == 21       \* to_list limits are drawn from -1..MaxLimit
MaxClock == 1        \* entry timestamps are drawn from 0..MaxClock

\* Python's None
None == "None"

\* ------------------------------------------------------- program constants
DefaultRatePerHour == 40        \* calc_fee: rate_per_hour = 40
DefaultMinChargeMinutes == 30   \* calc_fee: min_charge_minutes = 30
MinutesPerHour == 60            \* calc_fee: bill_minutes / 60
DefaultLimit == 20              \* to_list: limit = 20

VARIABLES
    lane_capacity,   \* StackParkingLane.capacity
    lane_stack,      \* StackParkingLane._stack, bottom -> top
    lane_call,       \* last call on the lane
    lot_capacity,    \* QueueParkingLot.capacity
    lot_q,           \* QueueParkingLot._q, front -> back
    lot_call,        \* last call on the lot
    lot_hist,        \* plates parked into / exited from the lot, in call order
    wq_q,            \* WaitingQueue._q, front -> back
    wq_call,         \* last call on the waiting line
    wq_hist,         \* plates enqueued, and how many non-empty dequeues
    fee_in,          \* arguments of calc_fee
    fee_call,        \* last call of calc_fee
    lane_before,     \* the call on the lane before the last one, when kept
    lane_rm,         \* a remove call in progress: its locals and position
    log_nodes,       \* the Node objects allocated, by allocation number
    log_head,        \* RecordLinkedList.head: a node number, 0 for None
    log_size,        \* RecordLinkedList.size
    log_call,        \* last call on the log
    log_added,       \* the records given to add_front, in call order
    log_tl,          \* a to_list call in progress: its locals and position
    idx,             \* the occupancy index: plate -> CarInLot
    idx_call,        \* last admit / exit of the caller keeping the index
    view,            \* the list last handed out by snapshot() / to_list()
    focus            \* the object a run exercises, "all" when every one

laneVars == <<lane_capacity, lane_stack, lane_call, lane_before, lane_rm>>
lotVars == <<lot_capacity, lot_q, lot_call, lot_hist>>
wqVars == <<wq_q, wq_call, wq_hist>>
feeVars == <<fee_in, fee_call>>
logVars == <<log_nodes, log_head, log_size, log_call, log_added, log_tl>>
idxVars == <<idx, idx_call>>

vars == <<laneVars, lotVars, wqVars, feeVars, logVars, idxVars, view, focus>>

\* what an operation on one object leaves alone
notLane == <<lotVars, wqVars, feeVars, logVars, idxVars, view, focus>>
notLot == <<laneVars, wqVars, feeVars, logVars, idxVars, view, focus>>
notWq == <<laneVars, lotVars, feeVars, logVars, idxVars, view, focus>>
notFee == <<laneVars, lotVars, wqVars, logVars, idxVars, view, focus>>
notLog == <<laneVars, lotVars, wqVars, feeVars, idxVars, view, focus>>
notLaneIdx == <<lotVars, wqVars, feeVars, logVars, view, focus>>
notLaneView == <<lotVars, wqVars, feeVars, logVars, idxVars, focus>>
notLotView == <<laneVars, wqVars, feeVars, logVars, idxVars, focus>>
notWqView == <<laneVars, lotVars, feeVars, logVars, idxVars, focus>>
notLogView == <<laneVars, lotVars, wqVars, feeVars, idxVars, focus>>
notLotIdx == <<laneVars, wqVars, feeVars, logVars, view, focus>>

\* ------------------------------------------------------- list primitives
\* list.pop() / deque.pop(): the list without its last element
PopBack(s) == SubSeq(s, 1, Len(s) - 1)

\* s[-1]
Last(s) == s[Len(s)]

\* `x in s`
Contains(s, x) == \E i \in 1..Len(s) : s[i] = x

NoCall == [op |-> "init", arg |-> None, ret |-> None, pre |-> <<>>]

\* A list handed to the caller: its items, and whether it is the very list
\* object the structure keeps (shared) or another one.
\* `return self._stack`: the structure's own list
ListSame(s) == [shared |-> TRUE, items |-> s]

\* list(s): a new list with the items of s
ListCopy(s) == [shared |-> FALSE, items |-> s]

\* out = []; out.append(...): a list built by the call
ListBuilt(s) == [shared |-> FALSE, items |-> s]

\* the list last handed out, kept or not
NoView == [on |-> FALSE, src |-> "none", shared |-> FALSE, items |-> <<>>, edited |-> FALSE]

ViewOn == [NoView EXCEPT !.on = TRUE]

ViewNext(v, src, lst) ==
    IF v.on
    THEN [on |-> TRUE, src |-> src, shared |-> lst.shared, items |-> lst.items,
          edited |-> FALSE]
    ELSE v

\* what the caller does to a list it was handed: append an item, or clear it
Edits == {"append", "clear"}

Edited(items, e, item) == IF e = "append" THEN Append(items, item) ELSE <<>>

\* ------------------------------------------------------ StackParkingLane
LaneIsFullOffByOne(cap, st) == Len(st) > cap

LaneIsFull(cap, st) == Len(st) >= cap

LaneIsEmpty(st) == Len(st) = 0

LaneEmptySpots(cap, st) == cap - Len(st)

LaneSnapshot(st) == st

\* park that turns away a plate already in the lane
LaneParkNoDuplicates(cap, st, plate) ==
    IF LaneIsFull(cap, st) \/ Contains(st, plate)
    THEN [stack |-> st, ret |-> FALSE]
    ELSE [stack |-> Append(st, plate), ret |-> TRUE]

\* park: the stack afterwards and the value returned
LaneParkAlways(cap, st, plate) ==
    [stack |-> Append(st, plate), ret |-> TRUE]

LaneParkCall(cap, st, plate) ==
    IF LaneIsFull(cap, st)
    THEN [stack |-> st, ret |-> FALSE]
    ELSE [stack |-> Append(st, plate), ret |-> TRUE]

\* remove, first loop: set aside every vehicle above the target
RECURSIVE RemoveDisplaceCountsTarget(_, _, _, _)
RemoveDisplaceCountsTarget(st, plate, temp, moves) ==
    IF st # <<>> /\ Last(st) # plate
    THEN RemoveDisplaceCountsTarget(PopBack(st), plate, Append(temp, Last(st)), moves + 1)
    ELSE [stack |-> st, temp |-> temp, moves |-> moves + 1]

RECURSIVE RemoveDisplace(_, _, _, _)
RemoveDisplace(st, plate, temp, moves) ==
    IF st # <<>> /\ Last(st) # plate
    THEN RemoveDisplace(PopBack(st), plate, Append(temp, Last(st)), moves + 1)
    ELSE [stack |-> st, temp |-> temp, moves |-> moves]

\* the target left where it is
RemoveTargetKept(st, plate) == st

\* remove, middle: take the target out
RemoveTarget(st, plate) ==
    IF st # <<>> /\ Last(st) = plate THEN PopBack(st) ELSE st

\* remove, second loop: put the set-aside vehicles back
RECURSIVE RemoveRestoreFifo(_, _)
RemoveRestoreFifo(st, temp) ==
    IF temp # <<>>
    THEN RemoveRestoreFifo(Append(st, Head(temp)), Tail(temp))
    ELSE [stack |-> st, temp |-> temp]

RECURSIVE RemoveRestore(_, _)
RemoveRestore(st, temp) ==
    IF temp # <<>>
    THEN RemoveRestore(Append(st, Last(temp)), PopBack(temp))
    ELSE [stack |-> st, temp |-> temp]

\* remove without the membership test
LaneRemoveUnguarded(st, plate) ==
    LET d == RemoveDisplace(st, plate, <<>>, 0)
        t == RemoveTarget(d.stack, plate)
        r == RemoveRestore(t, d.temp)
    IN  [stack |-> r.stack, temp |-> r.temp, ret |-> <<TRUE, d.moves>>]

LaneRemoveCall(st, plate) ==
    IF ~Contains(st, plate)
    THEN [stack |-> st, temp |-> <<>>, ret |-> <<FALSE, 0>>]
    ELSE LET d == RemoveDisplace(st, plate, <<>>, 0)
             t == RemoveTarget(d.stack, plate)
             r == RemoveRestore(t, d.temp)
         IN  [stack |-> r.stack, temp |-> r.temp, ret |-> <<TRUE, d.moves>>]

\* the call before the last one, kept or not
BeforeOff == [on |-> FALSE, call |-> NoCall]

BeforeOn == [on |-> TRUE, call |-> NoCall]

BeforeNext(b, call) == IF b.on THEN [b EXCEPT !.call = call] ELSE b

\* no remove call is running
RmIdle == [pc |-> "idle", plate |-> None, temp |-> <<>>, moves |-> 0,
           ret |-> <<FALSE, 0>>, pre |-> <<>>]

LaneInit ==
    /\ lane_capacity \in 1..MaxCap
    /\ lane_stack = <<>>
    /\ lane_call = NoCall
    /\ lane_before = BeforeOff
    /\ lane_rm = RmIdle

LaneIdle ==
    /\ lane_capacity = 1
    /\ lane_stack = <<>>
    /\ lane_call = NoCall
    /\ lane_before = BeforeOff
    /\ lane_rm = RmIdle

LanePark(plate) ==
    LET c == LaneParkCall(lane_capacity, lane_stack, plate) IN
    /\ lane_stack' = c.stack
    /\ lane_call' = [op |-> "park", arg |-> plate, ret |-> c.ret, pre |-> lane_stack]
    /\ lane_before' = BeforeNext(lane_before, lane_call)
    /\ UNCHANGED <<lane_capacity, lane_rm, notLane>>

LaneRemove(plate) ==
    LET c == LaneRemoveCall(lane_stack, plate) IN
    /\ lane_stack' = c.stack
    /\ lane_call' = [op |-> "remove", arg |-> plate, ret |-> c.ret, pre |-> lane_stack]
    /\ lane_before' = BeforeNext(lane_before, lane_call)
    /\ UNCHANGED <<lane_capacity, lane_rm, notLane>>

\* remove(plate), statement by statement. A frame is the call's view of the
\* lane: the stack (the lane's own list, changed in place), the locals and
\* the position: "test", "displace", "target", "restore", "return"; "raised"
\* when an exception left the call.
RmFrame == [pc |-> lane_rm.pc, stack |-> lane_stack, plate |-> lane_rm.plate,
            temp |-> lane_rm.temp, moves |-> lane_rm.moves, ret |-> lane_rm.ret]

\* if plate not in self._stack: return (False, 0); temp = []; moves = 0
RmTestStep(f) ==
    IF ~Contains(f.stack, f.plate)
    THEN [f EXCEPT !.pc = "return", !.ret = <<FALSE, 0>>]
    ELSE [f EXCEPT !.pc = "displace", !.temp = <<>>, !.moves = 0]

\* one turn of: while self._stack and self._stack[-1] != plate
RmDisplaceStep(f) ==
    IF f.stack # <<>> /\ Last(f.stack) # f.plate
    THEN [f EXCEPT !.temp = Append(@, Last(f.stack)),
                   !.stack = PopBack(@),
                   !.moves = @ + 1]
    ELSE [f EXCEPT !.pc = "target"]

\* if self._stack and self._stack[-1] == plate: self._stack.pop()
RmTargetStep(f) ==
    [f EXCEPT !.stack = RemoveTarget(f.stack, f.plate), !.pc = "restore"]

\* the restore loop with the body of the displacement loop,
\* temp.append(self._stack.pop()): IndexError once the stack is empty
RmRestoreStepPopsStack(f) ==
    IF f.temp # <<>>
    THEN IF f.stack # <<>>
         THEN [f EXCEPT !.temp = Append(@, Last(f.stack)), !.stack = PopBack(@)]
         ELSE [f EXCEPT !.pc = "raised"]
    ELSE [f EXCEPT !.pc = "return", !.ret = <<TRUE, f.moves>>]

\* one turn of: while temp: self._stack.append(temp.pop()); then
\* return (True, moves)
RmRestoreStep(f) ==
    IF f.temp # <<>>
    THEN [f EXCEPT !.stack = Append(@, Last(f.temp)), !.temp = PopBack(@)]
    ELSE [f EXCEPT !.pc = "return", !.ret = <<TRUE, f.moves>>]

\* the lane and the running call after a step that leaves frame g
RmGoes(g) ==
    /\ lane_stack' = g.stack
    /\ lane_rm' = [lane_rm EXCEPT !.pc = g.pc, !.temp = g.temp,
                                  !.moves = g.moves, !.ret = g.ret]
    /\ UNCHANGED <<lane_capacity, lane_call, lane_before, notLane>>

RmBegin(plate) ==
    /\ lane_rm.pc = "idle"
    /\ lane_rm' = [RmIdle EXCEPT !.pc = "test", !.plate = plate, !.pre = lane_stack]
    /\ UNCHANGED <<lane_capacity, lane_stack, lane_call, lane_before, notLane>>

RmTest == lane_rm.pc = "test" /\ RmGoes(RmTestStep(RmFrame))

RmDisplace == lane_rm.pc = "displace" /\ RmGoes(RmDisplaceStep(RmFrame))

RmTarget == lane_rm.pc = "target" /\ RmGoes(RmTargetStep(RmFrame))

RmRestore == lane_rm.pc = "restore" /\ RmGoes(RmRestoreStep(RmFrame))

RmReturn ==
    /\ lane_rm.pc = "return"
    /\ lane_call' = [op |-> "remove", arg |-> lane_rm.plate, ret |-> lane_rm.ret,
                     pre |-> lane_rm.pre]
    /\ lane_before' = BeforeNext(lane_before, lane_call)
    /\ lane_rm' = RmIdle
    /\ UNCHANGED <<lane_capacity, lane_stack, notLane>>

\* a call on the lane that only reads
LaneRead(op, ret) ==
    /\ lane_call' = [op |-> op, arg |-> None, ret |-> ret, pre |-> lane_stack]
    /\ lane_before' = BeforeNext(lane_before, lane_call)
    /\ UNCHANGED <<lane_capacity, lane_stack, lane_rm, notLaneView>>

LaneReadSnapshot ==
    LET lst == ListCopy(lane_stack) IN
    /\ LaneRead("snapshot", LaneSnapshot(lst.items))
    /\ view' = ViewNext(view, "lane", lst)

LaneReadIsFull ==
    LaneRead("is_full", LaneIsFull(lane_capacity, lane_stack)) /\ UNCHANGED view

LaneReadIsEmpty ==
    LaneRead("is_empty", LaneIsEmpty(lane_stack)) /\ UNCHANGED view

LaneReadEmptySpots ==
    LaneRead("empty_spots", LaneEmptySpots(lane_capacity, lane_stack)) /\ UNCHANGED view

\* the caller changes the list snapshot() gave it
LaneEditSnapshot(e) ==
    LET items == Edited(view.items, e, "X") IN
    /\ view.on /\ view.src = "lane" /\ ~view.edited
    /\ view' = [view EXCEPT !.items = items, !.edited = TRUE]
    /\ lane_stack' = IF view.shared THEN items ELSE lane_stack
    /\ lane_call' = [op |-> "edit", arg |-> e, ret |-> None, pre |-> lane_stack]
    /\ lane_before' = BeforeNext(lane_before, lane_call)
    /\ UNCHANGED <<lane_capacity, lane_rm, notLaneView>>

\* ------------------------------------------------------- QueueParkingLot
LotIsFull(cap, q) == Len(q) >= cap

LotEmptySpots(cap, q) == cap - Len(q)

LotSnapshot(q) == q

\* park that reports success on a full lot
LotParkFullReportsTrue(cap, q, plate) ==
    IF LotIsFull(cap, q)
    THEN [q |-> q, ret |-> TRUE]
    ELSE [q |-> Append(q, plate), ret |-> TRUE]

LotParkCall(cap, q, plate) ==
    IF LotIsFull(cap, q)
    THEN [q |-> q, ret |-> FALSE]
    ELSE [q |-> Append(q, plate), ret |-> TRUE]

LotExitBack(q) ==
    IF q = <<>>
    THEN [q |-> q, ret |-> None]
    ELSE [q |-> PopBack(q), ret |-> Last(q)]

LotExitFrontCall(q) ==
    IF q = <<>>
    THEN [q |-> q, ret |-> None]
    ELSE [q |-> Tail(q), ret |-> Head(q)]

HistOff == [on |-> FALSE, arrived |-> <<>>, departed |-> <<>>]

HistOn == [on |-> TRUE, arrived |-> <<>>, departed |-> <<>>]

\* the history after a plate went in / came out (None: nothing came out)
HistIn(h, ok, plate) ==
    IF h.on /\ ok THEN [h EXCEPT !.arrived = Append(@, plate)] ELSE h

HistOut(h, plate) ==
    IF h.on /\ plate # None THEN [h EXCEPT !.departed = Append(@, plate)] ELSE h

\* exploration bound on a kept history
HistRoom(h) == h.on => Len(h.arrived) < MaxHist

LotInit ==
    /\ lot_capacity \in 1..MaxCap
    /\ lot_q = <<>>
    /\ lot_call = NoCall
    /\ lot_hist = HistOff

LotIdle ==
    /\ lot_capacity = 1
    /\ lot_q = <<>>
    /\ lot_call = NoCall
    /\ lot_hist = HistOff

LotPark(plate) ==
    LET c == LotParkCall(lot_capacity, lot_q, plate) IN
    /\ HistRoom(lot_hist)
    /\ lot_q' = c.q
    /\ lot_call' = [op |-> "park", arg |-> plate, ret |-> c.ret, pre |-> lot_q]
    /\ lot_hist' = HistIn(lot_hist, c.ret, plate)
    /\ UNCHANGED <<lot_capacity, notLot>>

LotExitFront ==
    LET c == LotExitFrontCall(lot_q) IN
    /\ lot_q' = c.q
    /\ lot_call' = [op |-> "exit_front", arg |-> None, ret |-> c.ret, pre |-> lot_q]
    /\ lot_hist' = HistOut(lot_hist, c.ret)
    /\ UNCHANGED <<lot_capacity, notLot>>

\* a call on the lot that only reads
LotRead(op, ret) ==
    /\ lot_call' = [op |-> op, arg |-> None, ret |-> ret, pre |-> lot_q]
    /\ UNCHANGED <<lot_capacity, lot_q, lot_hist, notLotView>>

LotReadSnapshot ==
    LET lst == ListCopy(lot_q) IN
    /\ LotRead("snapshot", LotSnapshot(lst.items))
    /\ view' = ViewNext(view, "lot", lst)

LotReadIsFull ==
    LotRead("is_full", LotIsFull(lot_capacity, lot_q)) /\ UNCHANGED view

LotReadEmptySpots ==
    LotRead("empty_spots", LotEmptySpots(lot_capacity, lot_q)) /\ UNCHANGED view

\* the caller changes the list snapshot() gave it
LotEditSnapshot(e) ==
    LET items == Edited(view.items, e, "X") IN
    /\ view.on /\ view.src = "lot" /\ ~view.edited
    /\ view' = [view EXCEPT !.items = items, !.edited = TRUE]
    /\ lot_q' = IF view.shared THEN items ELSE lot_q
    /\ lot_call' = [op |-> "edit", arg |-> e, ret |-> None, pre |-> lot_q]
    /\ UNCHANGED <<lot_capacity, lot_hist, notLotView>>

\* ---------------------------------------------------------- WaitingQueue
WqEnqueueNoDuplicates(q, plate) ==
    IF Contains(q, plate)
    THEN [q |-> q, ret |-> None]
    ELSE [q |-> Append(q, plate), ret |-> None]

WqEnqueueCall(q, plate) == [q |-> Append(q, plate), ret |-> None]

WqDequeueBack(q) ==
    IF q = <<>>
    THEN [q |-> q, ret |-> None]
    ELSE [q |-> PopBack(q), ret |-> Last(q)]

WqDequeueCall(q) ==
    IF q = <<>>
    THEN [q |-> q, ret |-> None]
    ELSE [q |-> Tail(q), ret |-> Head(q)]

\* q[0] without the emptiness test: IndexError on an empty deque
WqPeekUnguarded(q) ==
    [q |-> q, ret |-> IF q # <<>> THEN q[1] ELSE "IndexError"]

WqPeekCall(q) ==
    [q |-> q, ret |-> IF q # <<>> THEN q[1] ELSE None]

WqLen(q) == Len(q)

WqToList(q) == q

WqInit ==
    /\ wq_q = <<>>
    /\ wq_call = NoCall
    /\ wq_hist = HistOff

WqIdle == WqInit

\* exploration bound on the waiting line when no history is kept
WqRoom == wq_hist.on \/ Len(wq_q) < MaxQueue

WqEnqueue(plate) ==
    LET c == WqEnqueueCall(wq_q, plate) IN
    /\ HistRoom(wq_hist)
    /\ WqRoom
    /\ wq_q' = c.q
    /\ wq_call' = [op |-> "enqueue", arg |-> plate, ret |-> c.ret, pre |-> wq_q]
    /\ wq_hist' = HistIn(wq_hist, TRUE, plate)
    /\ UNCHANGED notWq

WqDequeue ==
    LET c == WqDequeueCall(wq_q) IN
    /\ wq_q' = c.q
    /\ wq_call' = [op |-> "dequeue", arg |-> None, ret |-> c.ret, pre |-> wq_q]
    /\ wq_hist' = HistOut(wq_hist, c.ret)
    /\ UNCHANGED notWq

WqPeek ==
    LET c == WqPeekCall(wq_q) IN
    /\ wq_q' = c.q
    /\ wq_call' = [op |-> "peek", arg |-> None, ret |-> c.ret, pre |-> wq_q]
    /\ UNCHANGED <<wq_hist, notWq>>

WqReadLen ==
    /\ wq_call' = [op |-> "len", arg |-> None, ret |-> WqLen(wq_q), pre |-> wq_q]
    /\ UNCHANGED <<wq_q, wq_hist, view, notWqView>>

WqReadToList ==
    LET lst == ListCopy(wq_q) IN
    /\ wq_call' = [op |-> "to_list", arg |-> None, ret |-> WqToList(lst.items), pre |-> wq_q]
    /\ view' = ViewNext(view, "wq", lst)
    /\ UNCHANGED <<wq_q, wq_hist, notWqView>>

\* the caller changes the list to_list() gave it
WqEditList(e) ==
    LET items == Edited(view.items, e, "X") IN
    /\ view.on /\ view.src = "wq" /\ ~view.edited
    /\ view' = [view EXCEPT !.items = items, !.edited = TRUE]
    /\ wq_q' = IF view.shared THEN items ELSE wq_q
    /\ wq_call' = [op |-> "edit", arg |-> e, ret |-> None, pre |-> wq_q]
    /\ UNCHANGED <<wq_hist, notWqView>>

\* -------------------------------------------------------------- calc_fee
\* the remainder test of the rounding inverted
CeilDiv60Inverted(n) ==
    IF n % MinutesPerHour # 0
    THEN n \div MinutesPerHour
    ELSE (n \div MinutesPerHour) + 1

\* math.ceil(n / 60) for an int n >= 0: the quotient, one more when the
\* division leaves a remainder. n / 60 is a float division; for the n of the
\* bounded ranges (far below 2^53) its rounding never reaches or leaves a
\* whole number, so the ceiling is the exact one.
CeilDiv60(n) ==
    IF n % MinutesPerHour = 0
    THEN n \div MinutesPerHour
    ELSE (n \div MinutesPerHour) + 1

Max(a, b) == IF a >= b THEN a ELSE b

\* the minimum charge forgotten
calc_fee_no_minimum(minutes, rate_per_hour, min_charge_minutes) ==
    LET bill_minutes == minutes
        hours == CeilDiv60(bill_minutes)
    IN  hours * rate_per_hour

\* the minimum charge applied as a cap (min for max)
calc_fee_capped(minutes, rate_per_hour, min_charge_minutes) ==
    LET bill_minutes == IF minutes <= min_charge_minutes THEN minutes ELSE min_charge_minutes
        hours == CeilDiv60(bill_minutes)
    IN  hours * rate_per_hour

calc_fee_floor(minutes, rate_per_hour, min_charge_minutes) ==
    LET bill_minutes == Max(minutes, min_charge_minutes)
        hours == bill_minutes \div MinutesPerHour
    IN  hours * rate_per_hour

calc_fee(minutes, rate_per_hour, min_charge_minutes) ==
    LET bill_minutes == Max(minutes, min_charge_minutes)
        hours == CeilDiv60(bill_minutes)
    IN  hours * rate_per_hour

FeeIdle ==
    /\ fee_in = [minutes |-> 0, rate |-> 0, min |-> 0]
    /\ fee_call = [op |-> "init", ret |-> 0]

FeeInit ==
    /\ fee_in \in [minutes : 0..MaxMinutes, rate : 0..MaxRate, min : 0..MaxMinCharge]
    /\ fee_call = [op |-> "init", ret |-> 0]

CalcFee ==
    /\ fee_call.op = "init"
    /\ fee_call' = [op |-> "calc_fee",
                    ret |-> calc_fee(fee_in.minutes, fee_in.rate, fee_in.min)]
    /\ UNCHANGED <<fee_in, notFee>>

\* ------------------------------------------------------ RecordLinkedList
\* A Record is an object made by the caller for one finished visit; it stands
\* here as the number of the add_front call that brought it. A Node is
\* [data, next], next being a node number, 0 for None.
\* no to_list call is running
TlIdle == [pc |-> "idle", limit |-> 0, cur |-> 0, out |-> <<>>]

\* add_front that forgets size += 1
LogAddFrontNoCount(nodes, head, size, record) ==
    [nodes |-> Append(nodes, [data |-> record, next |-> head]),
     head |-> Len(nodes) + 1,
     size |-> size]

\* self.head = Node(record, self.head); self.size += 1
LogAddFrontCall(nodes, head, size, record) ==
    [nodes |-> Append(nodes, [data |-> record, next |-> head]),
     head |-> Len(nodes) + 1,
     size |-> size + 1]

\* the loop of to_list with <= for <
RECURSIVE ToListLoopOneMore(_, _, _, _)
ToListLoopOneMore(nodes, cur, out, limit) ==
    IF cur # 0 /\ Len(out) <= limit
    THEN ToListLoopOneMore(nodes, nodes[cur].next, Append(out, nodes[cur].data), limit)
    ELSE out

\* while cur and len(out) < limit: out.append(cur.data); cur = cur.next
RECURSIVE ToListLoop(_, _, _, _)
ToListLoop(nodes, cur, out, limit) ==
    IF cur # 0 /\ Len(out) < limit
    THEN ToListLoop(nodes, nodes[cur].next, Append(out, nodes[cur].data), limit)
    ELSE out

LogToListCall(nodes, head, limit) == ToListLoop(nodes, head, <<>>, limit)

\* to_list(limit), statement by statement: "loop", then "return"
\* one turn of: while cur and len(out) < limit
TlLoopStep(nodes, t) ==
    IF t.cur # 0 /\ Len(t.out) < t.limit
    THEN [t EXCEPT !.out = Append(@, nodes[t.cur].data), !.cur = nodes[t.cur].next]
    ELSE [t EXCEPT !.pc = "return"]

\* the fields of the log, as a call finds them
LogState == [head |-> log_head, size |-> log_size, nodes |-> log_nodes]

LogInit ==
    /\ log_nodes = <<>>
    /\ log_head = 0
    /\ log_size = 0
    /\ log_call = NoCall
    /\ log_added = <<>>
    /\ log_tl = TlIdle

LogIdle == LogInit

LogAddFront ==
    LET record == Len(log_added) + 1
        c == LogAddFrontCall(log_nodes, log_head, log_size, record)
    IN  /\ Len(log_added) < MaxAdds
        /\ log_nodes' = c.nodes
        /\ log_head' = c.head
        /\ log_size' = c.size
        /\ log_call' = [op |-> "add_front", arg |-> record, ret |-> None, pre |-> LogState]
        /\ log_added' = Append(log_added, record)
        /\ UNCHANGED <<log_tl, notLog>>

LogToList(limit) ==
    LET lst == ListBuilt(LogToListCall(log_nodes, log_head, limit)) IN
    /\ log_call' = [op |-> "to_list", arg |-> limit, ret |-> lst.items, pre |-> LogState]
    /\ view' = ViewNext(view, "log", lst)
    /\ UNCHANGED <<log_nodes, log_head, log_size, log_added, log_tl, notLogView>>

\* out = []; cur = self.head
TlBegin(limit) ==
    /\ log_tl.pc = "idle"
    /\ log_tl' = [pc |-> "loop", limit |-> limit, cur |-> log_head, out |-> <<>>]
    /\ UNCHANGED <<log_nodes, log_head, log_size, log_call, log_added, notLog>>

TlLoop ==
    /\ log_tl.pc = "loop"
    /\ log_tl' = TlLoopStep(log_nodes, log_tl)
    /\ UNCHANGED <<log_nodes, log_head, log_size, log_call, log_added, notLog>>

\* return out
TlReturn ==
    LET lst == ListBuilt(log_tl.out) IN
    /\ log_tl.pc = "return"
    /\ log_call' = [op |-> "to_list", arg |-> log_tl.limit, ret |-> lst.items,
                    pre |-> LogState]
    /\ view' = ViewNext(view, "log", lst)
    /\ log_tl' = TlIdle
    /\ UNCHANGED <<log_nodes, log_head, log_size, log_added, notLogView>>

\* the caller changes the list to_list() gave it; the log keeps no list
LogEditList(e) ==
    LET items == Edited(view.items, e, 0) IN
    /\ view.on /\ view.src = "log" /\ ~view.edited
    /\ view' = [view EXCEPT !.items = items, !.edited = TRUE]
    /\ log_call' = [op |-> "edit", arg |-> e, ret |-> None, pre |-> LogState]
    /\ UNCHANGED <<log_nodes, log_head, log_size, log_added, log_tl, notLogView>>

\* ------------------------------------------------------- occupancy index
IdxInit ==
    /\ idx = [p \in {} |-> None]
    /\ idx_call = NoCall

IdxIdle == IdxInit

\* the dataclass CarInLot
CarInLot(plate, entry_time, mode) ==
    [plate |-> plate, entry_time |-> entry_time, mode |-> mode]

\* put(plate, entry, mode): overwrites any prior entry of the plate
IdxPut(ix, plate, entry_time, mode) ==
    [p \in (DOMAIN ix) \cup {plate} |->
        IF p = plate THEN CarInLot(plate, entry_time, mode) ELSE ix[p]]

\* get(plate): the entry, or not found
IdxGet(ix, plate) ==
    IF plate \in DOMAIN ix
    THEN [found |-> TRUE, entry |-> ix[plate]]
    ELSE [found |-> FALSE, entry |-> None]

\* remove(plate)
IdxRemove(ix, plate) == [p \in (DOMAIN ix) \ {plate} |-> ix[p]]

\* The caller admits a plate that is not parked: it asks the lane to park it
\* and, when that succeeds, records the assignment in the index.
AdmitLane(plate, t) ==
    LET c == LaneParkCall(lane_capacity, lane_stack, plate) IN
    /\ ~IdxGet(idx, plate).found
    /\ lane_stack' = c.stack
    /\ lane_call' = [op |-> "park", arg |-> plate, ret |-> c.ret, pre |-> lane_stack]
    /\ lane_before' = BeforeNext(lane_before, lane_call)
    /\ idx' = IF c.ret THEN IdxPut(idx, plate, t, "STACK") ELSE idx
    /\ idx_call' = [op |-> "admit", arg |-> plate, ret |-> c.ret,
                    pre |-> CarInLot(plate, t, "STACK")]
    /\ UNCHANGED <<lane_capacity, lane_rm, notLaneIdx>>

\* the same with the FIFO lot
AdmitLot(plate, t) ==
    LET c == LotParkCall(lot_capacity, lot_q, plate) IN
    /\ ~IdxGet(idx, plate).found
    /\ HistRoom(lot_hist)
    /\ lot_q' = c.q
    /\ lot_call' = [op |-> "park", arg |-> plate, ret |-> c.ret, pre |-> lot_q]
    /\ lot_hist' = HistIn(lot_hist, c.ret, plate)
    /\ idx' = IF c.ret THEN IdxPut(idx, plate, t, "QUEUE") ELSE idx
    /\ idx_call' = [op |-> "admit", arg |-> plate, ret |-> c.ret,
                    pre |-> CarInLot(plate, t, "QUEUE")]
    /\ UNCHANGED <<lot_capacity, notLotIdx>>

\* The caller lets a plate out of the lane: it looks the plate up, asks the
\* lane to release it and drops the entry. A plate the index does not know,
\* or one it knows in the lot, is left alone.
ExitLane(plate) ==
    LET e == IdxGet(idx, plate)
        mine == e.found /\ e.entry.mode = "STACK"
        c == LaneRemoveCall(lane_stack, plate)
    IN  /\ lane_stack' = IF mine THEN c.stack ELSE lane_stack
        /\ lane_call' = IF mine
                        THEN [op |-> "remove", arg |-> plate, ret |-> c.ret, pre |-> lane_stack]
                        ELSE lane_call
        /\ lane_before' = IF mine THEN BeforeNext(lane_before, lane_call) ELSE lane_before
        /\ idx' = IF mine /\ c.ret[1] THEN IdxRemove(idx, plate) ELSE idx
        /\ idx_call' = [op |-> "exit", arg |-> plate, ret |-> mine /\ c.ret[1], pre |-> e.entry]
        /\ UNCHANGED <<lane_capacity, lane_rm, notLaneIdx>>

\* The caller lets the front vehicle out of the lot and drops its entry.
ExitLot ==
    LET c == LotExitFrontCall(lot_q)
        e == IdxGet(idx, c.ret)
    IN  /\ lot_q' = c.q
        /\ lot_call' = [op |-> "exit_front", arg |-> None, ret |-> c.ret, pre |-> lot_q]
        /\ lot_hist' = HistOut(lot_hist, c.ret)
        /\ idx' = IF c.ret # None THEN IdxRemove(idx, c.ret) ELSE idx
        /\ idx_call' = [op |-> "exit", arg |-> c.ret, ret |-> c.ret # None, pre |-> e.entry]
        /\ UNCHANGED <<lot_capacity, notLotIdx>>

\* what every specification below starts the unused objects from
Rest == /\ view = NoView
        /\ focus = "all"

\* ------------------------------------------------------- specifications
\* The two layouts side by side
Init == LaneInit /\ LotInit /\ WqIdle /\ FeeIdle /\ LogIdle /\ IdxIdle /\ Rest

Next ==
    \/ \E p \in Plates : LanePark(p)
    \/ \E p \in Plates : LaneRemove(p)
    \/ \E p \in Plates : LotPark(p)
    \/ LotExitFront

Spec == Init /\ [][Next]_vars

\* The lane alone, with the call before the last one kept
InitLane ==
    /\ LotIdle /\ WqIdle /\ FeeIdle /\ LogIdle /\ IdxIdle /\ Rest
    /\ lane_capacity \in 1..MaxCap
    /\ lane_stack = <<>>
    /\ lane_call = NoCall
    /\ lane_before = BeforeOn
    /\ lane_rm = RmIdle

NextLane ==
    \/ \E p \in Plates : LanePark(p)
    \/ \E p \in Plates : LaneRemove(p)

SpecLane == InitLane /\ [][NextLane]_vars

\* The FIFO lot alone, with its arrival / departure history
InitLot ==
    /\ LaneIdle /\ WqIdle /\ FeeIdle /\ LogIdle /\ IdxIdle /\ Rest
    /\ lot_capacity \in 1..MaxCap
    /\ lot_q = <<>>
    /\ lot_call = NoCall
    /\ lot_hist = HistOn

NextLot ==
    \/ \E p \in Plates : LotPark(p)
    \/ LotExitFront

SpecLot == InitLot /\ [][NextLot]_vars

\* The waiting line alone, with its arrival / departure history
InitWait ==
    /\ LaneIdle /\ LotIdle /\ FeeIdle /\ LogIdle /\ IdxIdle /\ Rest
    /\ wq_q = <<>>
    /\ wq_call = NoCall
    /\ wq_hist = HistOn

NextWait ==
    \/ \E p \in Plates : WqEnqueue(p)
    \/ WqDequeue
    \/ WqPeek

SpecWait == InitWait /\ [][NextWait]_vars

\* The waiting line and the FIFO lot side by side
InitFifo == LaneIdle /\ LotInit /\ WqInit /\ FeeIdle /\ LogIdle /\ IdxIdle /\ Rest

NextFifo ==
    \/ \E p \in Plates : WqEnqueue(p)
    \/ WqDequeue
    \/ WqPeek
    \/ \E p \in Plates : LotPark(p)
    \/ LotExitFront

SpecFifo == InitFifo /\ [][NextFifo]_vars

\* The two layouts under the caller that keeps the occupancy index
InitIndex == LaneInit /\ LotInit /\ WqIdle /\ FeeIdle /\ LogIdle /\ IdxInit /\ Rest

NextIndex ==
    \/ \E p \in Plates, t \in 0..MaxClock : AdmitLane(p, t)
    \/ \E p \in Plates, t \in 0..MaxClock : AdmitLot(p, t)
    \/ \E p \in Plates : ExitLane(p)
    \/ ExitLot

SpecIndex == InitIndex /\ [][NextIndex]_vars

\* Each structure on its own, with its read operations and a caller that
\* changes the lists it is handed
InitRead ==
    /\ FeeIdle /\ IdxIdle
    /\ view = ViewOn
    /\ focus \in {"lane", "lot", "wq", "log"}
    /\ IF focus = "lane" THEN LaneInit ELSE LaneIdle
    /\ IF focus = "lot" THEN LotInit ELSE LotIdle
    /\ IF focus = "wq" THEN WqInit ELSE WqIdle
    /\ IF focus = "log" THEN LogInit ELSE LogIdle

NextReadLane ==
    \/ \E p \in Plates : LanePark(p)
    \/ \E p \in Plates : LaneRemove(p)
    \/ LaneReadSnapshot
    \/ LaneReadIsFull
    \/ LaneReadIsEmpty
    \/ LaneReadEmptySpots
    \/ \E e \in Edits : LaneEditSnapshot(e)

NextReadLot ==
    \/ \E p \in Plates : LotPark(p)
    \/ LotExitFront
    \/ LotReadSnapshot
    \/ LotReadIsFull
    \/ LotReadEmptySpots
    \/ \E e \in Edits : LotEditSnapshot(e)

NextReadWq ==
    \/ \E p \in Plates : WqEnqueue(p)
    \/ WqDequeue
    \/ WqPeek
    \/ WqReadLen
    \/ WqReadToList
    \/ \E e \in Edits : WqEditList(e)

NextReadLog ==
    \/ LogAddFront
    \/ \E limit \in -1..MaxLimit : LogToList(limit)
    \/ \E e \in Edits : LogEditList(e)

NextRead ==
    \/ focus = "lane" /\ NextReadLane
    \/ focus = "lot" /\ NextReadLot
    \/ focus = "wq" /\ NextReadWq
    \/ focus = "log" /\ NextReadLog

SpecRead == InitRead /\ [][NextRead]_vars

\* remove and to_list run statement by statement, each structure on its own;
\* calls do not overlap (one thread), and a call that has begun keeps running
InitSteps ==
    /\ LotIdle /\ WqIdle /\ FeeIdle /\ IdxIdle
    /\ view = NoView
    /\ focus \in {"lane", "log"}
    /\ IF focus = "lane" THEN LaneInit ELSE LaneIdle
    /\ IF focus = "log" THEN LogInit ELSE LogIdle

RmSteps == RmTest \/ RmDisplace \/ RmTarget \/ RmRestore \/ RmReturn

TlSteps == TlLoop \/ TlReturn

NextSteps ==
    \/ focus = "lane" /\ lane_rm.pc = "idle" /\ \E p \in Plates : LanePark(p)
    \/ focus = "lane" /\ \E p \in Plates : RmBegin(p)
    \/ RmSteps
    \/ focus = "log" /\ log_tl.pc = "idle" /\ LogAddFront
    \/ focus = "log" /\ \E limit \in -1..MaxLimit : TlBegin(limit)
    \/ TlSteps

SpecSteps ==
    InitSteps /\ [][NextSteps]_vars /\ WF_vars(RmSteps) /\ WF_vars(TlSteps)

\* The history log alone
InitLog == LaneIdle /\ LotIdle /\ WqIdle /\ FeeIdle /\ LogInit /\ IdxIdle /\ Rest

NextLog ==
    \/ LogAddFront
    \/ \E limit \in -1..MaxLimit : LogToList(limit)

SpecLog == InitLog /\ [][NextLog]_vars

\* The fee calculator applied to every input of the bounded ranges
InitFee == LaneIdle /\ LotIdle /\ WqIdle /\ FeeInit /\ LogIdle /\ IdxIdle /\ Rest

NextFee == CalcFee

SpecFee == InitFee /\ [][NextFee]_vars

\* ================================================================ claims
\* index of the occurrence of x nearest the top of s
TopIndex(s, x) ==
    CHOOSE i \in 1..Len(s) : s[i] = x /\ \A j \in (i + 1)..Len(s) : s[j] # x

\* s with its k-th element deleted
DeleteAt(s, k) == [i \in 1..(Len(s) - 1) |-> IF i < k THEN s[i] ELSE s[i + 1]]

IsPrefix(s, t) == Len(s) <= Len(t) /\ \A i \in 1..Len(s) : s[i] = t[i]

\* C1: remove(plate) of a plate present in the lane returns (True, m), m being
\* the number of vehicles that stood above the target (the occurrence of the
\* plate nearest the top); m = 0 exactly when the target was the top vehicle.
C1_MoveCount ==
    (lane_call.op = "remove" /\ Contains(lane_call.pre, lane_call.arg)) =>
        LET pre == lane_call.pre
            k == TopIndex(pre, lane_call.arg)
            above == {j \in 1..Len(pre) : j > k}
        IN  /\ lane_call.ret[1] = TRUE
            /\ lane_call.ret[2] = Cardinality(above)
            /\ (lane_call.ret[2] = 0 <=> Last(pre) = lane_call.arg)

\* park A, B, C then remove(A): success with a move count of 2
C1_Witness ==
    /\ lane_call.op = "remove"
    /\ lane_call.pre = <<"A", "B", "C">>
    /\ lane_call.arg = "A"
    /\ lane_call.ret = <<TRUE, 2>>

\* C2: after any remove call the vehicles other than the removed one keep their
\* bottom-to-top order: on success the stack is the pre-call stack with the
\* target deleted, on failure it is the pre-call stack.
C2_Restoration ==
    lane_call.op = "remove" =>
        IF lane_call.ret[1]
        THEN /\ Contains(lane_call.pre, lane_call.arg)
             /\ lane_stack = DeleteAt(lane_call.pre, TopIndex(lane_call.pre, lane_call.arg))
             /\ Len(lane_stack) = Len(lane_call.pre) - 1
        ELSE lane_stack = lane_call.pre

\* the bottom vehicle of a full three-vehicle lane was removed: two were set
\* aside and came back in their order
C2_Witness ==
    /\ lane_call.op = "remove"
    /\ Len(lane_call.pre) = 3
    /\ lane_call.arg = lane_call.pre[1]
    /\ lane_call.pre[2] # lane_call.pre[3]
    /\ lane_call.ret[2] = 2
    /\ lane_stack = <<lane_call.pre[2], lane_call.pre[3]>>

\* C3: park on a layout holding capacity vehicles returns False and leaves the
\* snapshot unchanged; park on a layout that is not full returns True and
\* appends the plate at the top (lane) or at the back (lot).
C3_CapacityEnforcement ==
    /\ lane_call.op = "park" =>
        IF Len(lane_call.pre) = lane_capacity
        THEN lane_call.ret = FALSE /\ LaneSnapshot(lane_stack) = lane_call.pre
        ELSE /\ Len(lane_call.pre) < lane_capacity
             /\ lane_call.ret = TRUE
             /\ LaneSnapshot(lane_stack) = lane_call.pre \o <<lane_call.arg>>
    /\ lot_call.op = "park" =>
        IF Len(lot_call.pre) = lot_capacity
        THEN lot_call.ret = FALSE /\ LotSnapshot(lot_q) = lot_call.pre
        ELSE /\ Len(lot_call.pre) < lot_capacity
             /\ lot_call.ret = TRUE
             /\ LotSnapshot(lot_q) = lot_call.pre \o <<lot_call.arg>>

\* the (N+1)-th park was refused by the lane and by the lot
C3_Witness ==
    /\ lane_call.op = "park" /\ lane_call.ret = FALSE
    /\ Len(lane_stack) = lane_capacity /\ lane_capacity > 1
    /\ lot_call.op = "park" /\ lot_call.ret = FALSE
    /\ Len(lot_q) = lot_capacity /\ lot_capacity > 1

\* C4: both layouts hold at most capacity plates, empty_spots() is capacity
\* minus the count and lies in 0..capacity, and is_full() holds exactly when
\* empty_spots() is 0.
C4_Occupancy ==
    /\ Len(lane_stack) <= lane_capacity
    /\ LaneEmptySpots(lane_capacity, lane_stack) = lane_capacity - Len(lane_stack)
    /\ LaneEmptySpots(lane_capacity, lane_stack) \in 0..lane_capacity
    /\ LaneIsFull(lane_capacity, lane_stack)
           <=> (LaneEmptySpots(lane_capacity, lane_stack) = 0)
    /\ Len(lot_q) <= lot_capacity
    /\ LotEmptySpots(lot_capacity, lot_q) = lot_capacity - Len(lot_q)
    /\ LotEmptySpots(lot_capacity, lot_q) \in 0..lot_capacity
    /\ LotIsFull(lot_capacity, lot_q)
           <=> (LotEmptySpots(lot_capacity, lot_q) = 0)

\* a full lane that refused a park, and a lot one short of full after an exit
C4_Witness ==
    /\ lane_call.op = "park" /\ lane_call.ret = FALSE
    /\ LaneIsFull(lane_capacity, lane_stack)
    /\ LaneEmptySpots(lane_capacity, lane_stack) = 0
    /\ lot_call.op = "exit_front" /\ lot_call.ret # None
    /\ lot_q # <<>>
    /\ ~LotIsFull(lot_capacity, lot_q)
    /\ LotEmptySpots(lot_capacity, lot_q) = 1

\* C5: the plates returned by exit_front, in call order, are a prefix of the
\* plates whose park succeeded, in call order; exit_front on a lot that is not
\* empty returns the plate at the front of the snapshot and removes it.
C5_FifoOrdering ==
    /\ IsPrefix(lot_hist.departed, lot_hist.arrived)
    /\ (lot_call.op = "exit_front" /\ lot_call.pre # <<>>) =>
           /\ lot_call.ret = lot_call.pre[1]
           /\ lot_q = Tail(lot_call.pre)

\* park A, B, C; exit_front returned A, then B, then C, then None
C5_Witness ==
    /\ lot_hist.arrived = <<"A", "B", "C">>
    /\ lot_hist.departed = <<"A", "B", "C">>
    /\ lot_call.op = "exit_front"
    /\ lot_call.ret = None

\* C6: remove(plate) of a plate that is not in the lane returns (False, 0) and
\* leaves the snapshot unchanged, the empty lane included.
C6_RemoveAbsent ==
    (lane_call.op = "remove" /\ ~Contains(lane_call.pre, lane_call.arg)) =>
        /\ lane_call.ret = <<FALSE, 0>>
        /\ LaneSnapshot(lane_stack) = lane_call.pre

\* an absent plate was asked of a lane holding two other vehicles
C6_Witness ==
    /\ lane_call.op = "remove"
    /\ Len(lane_call.pre) = 2
    /\ ~Contains(lane_call.pre, lane_call.arg)
    /\ lane_call.ret = <<FALSE, 0>>

\* C7: dequeue and peek on an empty waiting line, and exit_front on an empty
\* lot, return None and leave the structure empty; an enqueue / park that
\* follows behaves as on a fresh structure.
C7_EmptyIsNormal ==
    [][ /\ (wq_call'.op \in {"dequeue", "peek"} /\ wq_call'.pre = <<>>) =>
               (wq_call'.ret = None /\ wq_q' = <<>>)
        /\ (lot_call'.op = "exit_front" /\ lot_call'.pre = <<>>) =>
               (lot_call'.ret = None /\ lot_q' = <<>>)
        /\ ( /\ wq_call.op \in {"dequeue", "peek"} /\ wq_call.pre = <<>>
             /\ wq_call' # wq_call /\ wq_call'.op = "enqueue" ) =>
               (wq_q' = <<wq_call'.arg>> /\ WqLen(wq_q') = 1)
        /\ ( /\ lot_call.op = "exit_front" /\ lot_call.pre = <<>>
             /\ lot_call' # lot_call /\ lot_call'.op = "park" ) =>
               (lot_call'.ret = TRUE /\ lot_q' = <<lot_call'.arg>>)
      ]_vars

\* the waiting line answered a dequeue with None and the lot an exit_front
C7_Witness ==
    /\ wq_call.op = "dequeue" /\ wq_call.pre = <<>> /\ wq_call.ret = None
    /\ lot_call.op = "exit_front" /\ lot_call.pre = <<>> /\ lot_call.ret = None

\* C8: the waiting line holds the enqueued plates minus the dequeued ones, in
\* arrival order; dequeue removes and returns the earliest-enqueued plate not
\* yet dequeued, peek returns that plate and changes nothing, and the length
\* is the number of enqueues minus the number of non-empty dequeues.
C8_WaitingLineFifo ==
    LET enq == wq_hist.arrived
        deq == wq_hist.departed
    IN  /\ IsPrefix(deq, enq)
        /\ WqLen(wq_q) = Len(enq) - Len(deq)
        /\ WqToList(wq_q) = [i \in 1..(Len(enq) - Len(deq)) |-> enq[Len(deq) + i]]
        /\ (wq_call.op = "dequeue" /\ wq_call.pre # <<>>) =>
               /\ wq_call.ret = enq[Len(deq)]
               /\ wq_q = Tail(wq_call.pre)
        /\ wq_call.op = "peek" =>
               /\ wq_q = wq_call.pre
               /\ wq_call.ret = IF Len(enq) > Len(deq) THEN enq[Len(deq) + 1] ELSE None

\* A, B, C were enqueued, A was dequeued and a peek shows B
C8_Witness ==
    /\ wq_hist.arrived = <<"A", "B", "C">>
    /\ wq_hist.departed = <<"A">>
    /\ wq_call.op = "peek"
    /\ wq_call.ret = "B"
    /\ WqLen(wq_q) = 2

\* C9: enqueue appends its plate at the back and makes the line one longer,
\* whatever the line holds: a plate already waiting gets a second occurrence,
\* and the occurrences leave one by one in their arrival positions.
C9_EnqueueAlwaysAppends ==
    /\ wq_call.op = "enqueue" =>
           /\ wq_call.ret = None
           /\ wq_q = wq_call.pre \o <<wq_call.arg>>
           /\ WqLen(wq_q) = Len(wq_call.pre) + 1
    /\ IsPrefix(wq_hist.departed, wq_hist.arrived)
    /\ WqLen(wq_q) = Len(wq_hist.arrived) - Len(wq_hist.departed)

\* A was enqueued while A was waiting; both occurrences are in the line
C9_Witness ==
    /\ wq_call.op = "enqueue"
    /\ wq_call.arg = "A"
    /\ wq_call.pre = <<"A", "B">>
    /\ wq_q = <<"A", "B", "A">>

\* C10: calc_fee(minutes, rate, min) is ceiling(max(minutes, min) / 60) * rate:
\* the least number of whole hours covering the billed minutes, times the
\* rate; with rate 40 and min 30, 61 minutes bill 80, 29 bill 40, 60 bill 40.
C10_FeeFormula ==
    fee_call.op = "calc_fee" =>
        LET billed == IF fee_in.minutes > fee_in.min THEN fee_in.minutes ELSE fee_in.min
            hours == CHOOSE h \in 0..billed :
                         /\ h * 60 >= billed
                         /\ \A g \in 0..(h - 1) : g * 60 < billed
            example == fee_in.rate = 40 /\ fee_in.min = 30
        IN  /\ fee_call.ret = hours * fee_in.rate
            /\ (example /\ fee_in.minutes = 61) => fee_call.ret = 80
            /\ (example /\ fee_in.minutes = 29) => fee_call.ret = 40
            /\ (example /\ fee_in.minutes = 60) => fee_call.ret = 40

\* 61 minutes at the default rate and minimum were billed two hours
C10_Witness ==
    /\ fee_call.op = "calc_fee"
    /\ fee_in.minutes = 61
    /\ fee_in.rate = DefaultRatePerHour
    /\ fee_in.min = DefaultMinChargeMinutes
    /\ fee_call.ret = 80

\* C11 as stated: zero elapsed minutes never bill zero, for every non-negative
\* rate and non-negative minimum-charge minutes.
C11_ZeroMinutesNeverFree ==
    (fee_call.op = "calc_fee" /\ fee_in.minutes = 0) => fee_call.ret > 0

\* C11, amended: zero elapsed minutes bill the minimum charge, which is more
\* than zero when the rate and the minimum-charge minutes are both positive;
\* with a rate of 0 or a minimum of 0 minutes the fee for 0 minutes is 0.
C11_ZeroMinutesBillMinimum ==
    (fee_call.op = "calc_fee" /\ fee_in.minutes = 0) =>
        /\ (fee_in.rate > 0 /\ fee_in.min > 0) => fee_call.ret > 0
        /\ (fee_in.rate = 0 \/ fee_in.min = 0) => fee_call.ret = 0

\* zero minutes at the default rate and minimum were billed one hour
C11_Witness ==
    /\ fee_call.op = "calc_fee"
    /\ fee_in.minutes = 0
    /\ fee_in.rate = DefaultRatePerHour
    /\ fee_in.min = DefaultMinChargeMinutes
    /\ fee_call.ret = DefaultRatePerHour

\* C12: the fee of a duration is at least the fee of every shorter duration,
\* the rate and the minimum-charge minutes being the same.
C12_FeeMonotone ==
    fee_call.op = "calc_fee" =>
        \A d1 \in 0..fee_in.minutes :
            calc_fee(d1, fee_in.rate, fee_in.min) <= fee_call.ret

\* a duration past the first hour and past the minimum was billed more than
\* the duration one minute shorter
C12_Witness ==
    /\ fee_call.op = "calc_fee"
    /\ fee_in.minutes = 61
    /\ fee_in.min < 61
    /\ fee_in.rate > 0
    /\ calc_fee(60, fee_in.rate, fee_in.min) < fee_call.ret

\* C13: a duration below the minimum-charge minutes bills what the
\* minimum-charge minutes themselves bill.
C13_MinimumFloor ==
    (fee_call.op = "calc_fee" /\ fee_in.minutes < fee_in.min) =>
        fee_call.ret = calc_fee(fee_in.min, fee_in.rate, fee_in.min)

\* 10 minutes under a 61-minute minimum were billed two hours
C13_Witness ==
    /\ fee_call.op = "calc_fee"
    /\ fee_in.minutes = 10
    /\ fee_in.min = 61
    /\ fee_in.rate = 7
    /\ fee_call.ret = 14

\* number of occurrences of x in s
Count(s, x) == Cardinality({i \in 1..Len(s) : s[i] = x})

\* C18: park accepts a plate that is already in the lane; remove(plate) of a
\* plate that occurs more than once takes out the occurrence nearest the top
\* and no other: the count drops by one, everything else stays in place, and
\* the move count is the number of vehicles above that occurrence.
C18_DuplicatePlates ==
    /\ ( /\ lane_call.op = "park"
         /\ Contains(lane_call.pre, lane_call.arg)
         /\ Len(lane_call.pre) < lane_capacity ) =>
           /\ lane_call.ret = TRUE
           /\ lane_stack = lane_call.pre \o <<lane_call.arg>>
           /\ Count(lane_stack, lane_call.arg) = Count(lane_call.pre, lane_call.arg) + 1
    /\ (lane_call.op = "remove" /\ Count(lane_call.pre, lane_call.arg) > 1) =>
           LET pre == lane_call.pre
               k == TopIndex(pre, lane_call.arg)
           IN  /\ lane_call.ret = <<TRUE, Len(pre) - k>>
               /\ Len(lane_stack) = Len(pre) - 1
               /\ Count(lane_stack, lane_call.arg) = Count(pre, lane_call.arg) - 1
               /\ \A i \in 1..(k - 1) : lane_stack[i] = pre[i]
               /\ \A i \in k..Len(lane_stack) : lane_stack[i] = pre[i + 1]

\* A was parked twice under B; remove(A) moved B aside and took the upper A
C18_Witness ==
    /\ lane_call.op = "remove"
    /\ lane_call.arg = "A"
    /\ lane_call.pre = <<"A", "A", "B">>
    /\ lane_call.ret = <<TRUE, 1>>
    /\ lane_stack = <<"A", "B">>

\* C19: park(p) into a lane that is not full and does not hold p, followed at
\* once by remove(p), returns (True, 0) and leaves the snapshot from before
\* the park; after a successful remove the lane is not full, and a park that
\* follows succeeds and puts its plate on top.
C19_RoundTrip ==
    LET was == lane_before.call
        parked == /\ was.op = "park"
                  /\ was.ret = TRUE
                  /\ ~Contains(was.pre, was.arg)
        removed == was.op = "remove" /\ was.ret[1]
    IN  /\ (parked /\ lane_call.op = "remove" /\ lane_call.arg = was.arg) =>
               /\ lane_call.ret = <<TRUE, 0>>
               /\ LaneSnapshot(lane_stack) = was.pre
        /\ (lane_call.op = "remove" /\ lane_call.ret[1]) =>
               ~LaneIsFull(lane_capacity, lane_stack)
        /\ (removed /\ lane_call.op = "park") =>
               /\ lane_call.ret = TRUE
               /\ LaneSnapshot(lane_stack) = lane_call.pre \o <<lane_call.arg>>

\* C was parked on top of A, B and removed at once: A, B is back
C19_Witness ==
    /\ lane_before.call.op = "park"
    /\ lane_before.call.arg = "C"
    /\ lane_before.call.pre = <<"A", "B">>
    /\ lane_call.op = "remove"
    /\ lane_call.arg = "C"
    /\ lane_call.ret = <<TRUE, 0>>
    /\ lane_stack = <<"A", "B">>

\* the nodes met from cur on, following next: how many, and whether the walk
\* ended in None (0) without meeting a node twice
RECURSIVE Chain(_, _, _)
Chain(nodes, cur, seen) ==
    IF cur = 0 THEN [ends |-> TRUE, n |-> Cardinality(seen)]
    ELSE IF cur \in seen \/ cur \notin DOMAIN nodes
         THEN [ends |-> FALSE, n |-> Cardinality(seen)]
         ELSE Chain(nodes, nodes[cur].next, seen \cup {cur})

Min(a, b) == IF a <= b THEN a ELSE b

\* C14: after k add_front calls to_list(limit), limit > 0, returns min(limit, k)
\* records, the last added first: the last min(limit, k) records in reverse
\* order of insertion; and at any time the whole log read back is every record
\* added, newest first, whatever add_front and to_list calls came later.
C14_HistoryBounding ==
    LET k == Len(log_added) IN
    /\ (log_call.op = "to_list" /\ log_call.arg > 0) =>
           LET n == Min(log_call.arg, k)
           IN  /\ Len(log_call.ret) = n
               /\ \A i \in 1..n : log_call.ret[i] = log_added[k - i + 1]
    /\ LogToListCall(log_nodes, log_head, k + 1) = [i \in 1..k |-> log_added[k - i + 1]]

\* 25 records were added and to_list(20) returned 20 of them, the 25th first
\* and the 6th last
C14_Witness ==
    /\ Len(log_added) = 25
    /\ log_call.op = "to_list"
    /\ log_call.arg = DefaultLimit
    /\ Len(log_call.ret) = 20
    /\ log_call.ret[1] = log_added[25]
    /\ log_call.ret[20] = log_added[6]

\* C20: size is the number of nodes on the chain from head, which is the
\* number of add_front calls made; the chain meets no node twice and ends in
\* None; to_list with a limit of 0 or less returns an empty list and leaves
\* size and head as they were.
C20_LogShape ==
    LET c == Chain(log_nodes, log_head, {}) IN
    /\ c.ends
    /\ c.n = log_size
    /\ log_size = Len(log_added)
    /\ (log_call.op = "to_list" /\ log_call.arg <= 0) =>
           /\ log_call.ret = <<>>
           /\ log_size = log_call.pre.size
           /\ log_head = log_call.pre.head

\* to_list(0) on a log of three records returned nothing
C20_Witness ==
    /\ log_size = 3
    /\ Chain(log_nodes, log_head, {}).n = 3
    /\ log_call.op = "to_list"
    /\ log_call.arg = 0
    /\ log_call.ret = <<>>

\* C15: a plate is in a layout's collection exactly when the index holds an
\* entry for it, the entry naming that layout, and no plate is parked twice;
\* after a successful park get(plate) returns the entry used, and after the
\* exit of a plate get(plate) answers not found.
C15_OccupancyConsistency ==
    /\ \A p \in Plates :
           /\ Count(lane_stack, p) + Count(lot_q, p) <= 1
           /\ Contains(lane_stack, p) <=>
                  (IdxGet(idx, p).found /\ IdxGet(idx, p).entry.mode = "STACK")
           /\ Contains(lot_q, p) <=>
                  (IdxGet(idx, p).found /\ IdxGet(idx, p).entry.mode = "QUEUE")
    /\ DOMAIN idx \subseteq Plates
    /\ (idx_call.op = "admit" /\ idx_call.ret) =>
           IdxGet(idx, idx_call.arg) = [found |-> TRUE, entry |-> idx_call.pre]
    /\ (idx_call.op = "exit" /\ idx_call.ret) =>
           ~IdxGet(idx, idx_call.arg).found

\* B left the lane from under C while A stays in the lot: B is not found, the
\* two others are
C15_Witness ==
    /\ idx_call.op = "exit" /\ idx_call.arg = "B" /\ idx_call.ret
    /\ lane_call.op = "remove" /\ lane_call.ret = <<TRUE, 1>>
    /\ ~IdxGet(idx, "B").found
    /\ IdxGet(idx, "C").found /\ lane_stack = <<"C">>
    /\ IdxGet(idx, "A").found /\ lot_q = <<"A">>

\* C16: snapshot(), is_full(), is_empty() and empty_spots() of the layouts,
\* peek(), len() and to_list() of the waiting line and to_list(limit) of the
\* log leave the structure as it was; so does a change the caller makes to a
\* list it was handed, which is therefore a copy: a later snapshot() or
\* to_list() still returns the structure's own content.
C16_ReadsDoNotMutate ==
    /\ lane_call.op \in {"snapshot", "is_full", "is_empty", "empty_spots", "edit"} =>
           LaneSnapshot(lane_stack) = lane_call.pre
    /\ lot_call.op \in {"snapshot", "is_full", "empty_spots", "edit"} =>
           LotSnapshot(lot_q) = lot_call.pre
    /\ wq_call.op \in {"peek", "len", "to_list", "edit"} =>
           WqToList(wq_q) = wq_call.pre
    /\ log_call.op \in {"to_list", "edit"} =>
           /\ LogState = log_call.pre
           /\ LogToListCall(log_nodes, log_head, log_size)
                  = LogToListCall(log_call.pre.nodes, log_call.pre.head, log_call.pre.size)
    /\ ~view.shared

\* the caller appended to the snapshot of a lane holding A, B: the lane holds
\* A, B still
C16_Witness ==
    /\ lane_call.op = "edit"
    /\ view.src = "lane"
    /\ view.edited
    /\ view.items = <<"A", "B", "X">>
    /\ lane_stack = <<"A", "B">>

\* C17: a remove call that has begun returns, for every lane content and
\* plate: both loops end, the temporary list is empty at the return, and the
\* lane is then either as before the call (failure) or as before without the
\* target (success); a to_list call that has begun returns, for every log and
\* limit.
C17_Terminates ==
    /\ [](lane_rm.pc = "return" =>
            /\ lane_rm.temp = <<>>
            /\ IF lane_rm.ret[1]
               THEN /\ Contains(lane_rm.pre, lane_rm.plate)
                    /\ lane_stack = DeleteAt(lane_rm.pre, TopIndex(lane_rm.pre, lane_rm.plate))
               ELSE /\ ~Contains(lane_rm.pre, lane_rm.plate)
                    /\ lane_stack = lane_rm.pre)
    /\ (lane_rm.pc = "displace") ~> (lane_rm.pc = "target")
    /\ (lane_rm.pc = "restore") ~> (lane_rm.pc = "return")
    /\ (lane_rm.pc # "idle") ~> (lane_rm.pc = "idle")
    /\ (log_tl.pc # "idle") ~> (log_tl.pc = "idle")

\* remove of the bottom vehicle of three is at its return: two moves were
\* made and the temporary list is empty again
C17_Witness ==
    /\ lane_rm.pc = "return"
    /\ Len(lane_rm.pre) = 3
    /\ lane_rm.plate = lane_rm.pre[1]
    /\ lane_rm.ret = <<TRUE, 2>>
    /\ lane_rm.temp = <<>>
    /\ Len(lane_stack) = 2

====
